---- MODULE Spec2Model ----
(***************************************************************************)
(* Prostate Analyzer: the Case Manager (app/controllers/case_manager.py),  *)
(* the image loader it calls (app/utils/image_loader.py) and the           *)
(* post-processing of a prediction (PredictionWorker._process_results in   *)
(* app/controllers/prediction_controller.py), and the prediction           *)
(* controller with its worker thread (same file), whose signals reach the  *)
(* UI thread through Qt's event queue, and the main window                 *)
(* (app/main_window.py) with its viewer (app/views/viewer_widget.py),      *)
(* whose slots are connected to the signals of both.                       *)
(*                                                                         *)
(* Python values are modelled as follows.                                  *)
(*   - a dict with free keys (metadata) is a set of <<key, value>> pairs,  *)
(*     one pair per key;                                                   *)
(*   - a metadata value is [kind, val]: kind is the Python type ("tuple",  *)
(*     "list", "str", "int", "float", "ndarray"), val its content as a     *)
(*     sequence of strings;                                                *)
(*   - an optional dict entry is <<>> when the key is absent and <<v>>     *)
(*     when it is present;                                                 *)
(*   - list indices are Python's (0-based): cases[i] is Cases[i + 1].      *)
(***************************************************************************)
EXTENDS Integers, Sequences, FiniteSets, TLC

VARIABLES
    cases,               \* CaseManager.cases
    current_case_index,  \* CaseManager.current_case_index
    disk,                \* the JSON files save_current_case writes
    clock,               \* datetime.datetime.now(), in seconds
    calls,               \* number of calls made so far
    installed,           \* the image backends importable on this machine
    lastCall,            \* the call just made: its arguments, outcome, signals
    lesion_probability,  \* _process_results: the probability volume
    voxel_volume,        \* _process_results: product of the T2W spacing
    post_pc,             \* _process_results: "ready" or "done"
    results,             \* _process_results: the results dict, <<>> before
    label_masks,         \* _process_results: label -> label_mask (line 328)
    workers,             \* the PredictionWorker objects created, the last one
                         \* being PredictionController.worker
    last_results,        \* PredictionController.last_results
    model_path,          \* PredictionController.model_path
    ui_queue,            \* worker signals queued for the UI thread, in order
    torch_available,     \* TORCH_AVAILABLE and MONAI_AVAILABLE (set together)
    model_files,         \* the model files that exist in MODELS_DIR
    image_file,          \* _process_file on one file: the file it is given
    image_info,          \* _process_file: what it has got so far
    file_pc,             \* _process_file: "given", "loaded", "done", "ValueError"
    predict_enabled,     \* MainWindow: predict_action, its toolbar action and button
    report_enabled,      \* MainWindow: report_action, its toolbar action and button
    viewer               \* MainWindow.viewer_widget: the ViewerWidget's fields

vars == <<cases, current_case_index, disk, clock, calls, installed, lastCall,
          lesion_probability, voxel_volume, post_pc, results, label_masks,
          workers, last_results, model_path, ui_queue, torch_available, model_files,
          image_file, image_info, file_pc, predict_enabled, report_enabled, viewer>>

caseVars == <<cases, current_case_index, disk, clock, calls, installed, lastCall>>
postVars == <<lesion_probability, voxel_volume, post_pc, results, label_masks>>
ctrlVars == <<last_results, model_path, ui_queue, torch_available, model_files>>
fileVars == <<image_file, image_info, file_pc>>
winVars == <<predict_enabled, report_enabled, viewer>>
predVars == <<workers, last_results, model_path, ui_queue, torch_available, model_files>>

---------------------------------------------------------------------------
(* Bounds of the model *)

MaxCalls == 4     \* calls made to the Case Manager (a tick of the clock counts)
MaxRuns == 2      \* PredictionWorker objects created
MaxTokens == 2    \* a file name given to _process_file is made of up to MaxTokens words
GridX == 3        \* the probability volume is GridX x 2 x 1 voxels

---------------------------------------------------------------------------
(* Small Python helpers *)

Last(s) == s[Len(s)]

RemoveAt(s, i) == [k \in 1..(Len(s) - 1) |-> IF k < i THEN s[k] ELSE s[k + 1]]

Range(s) == {s[k] : k \in 1..Len(s)}

\* `sub in s` for Python strings, both given as sequences of characters
Contains(s, sub) ==
    \E k \in 0..(Len(s) - Len(sub)) :
        \A j \in 1..Len(sub) : s[k + j] = sub[j]

LowerChar(c) ==
    CASE c = "T" -> "t"
      [] c = "A" -> "a"
      [] c = "D" -> "d"
      [] c = "C" -> "c"
      [] OTHER -> c

\* str.lower()
Lower(s) == [k \in 1..Len(s) |-> LowerChar(s[k])]

\* dict.update(other) on dicts given as sets of <<key, value>> pairs
DictUpdate(d, other) ==
    {kv \in d : ~ \E o \in other : o[1] = kv[1]} \cup other

DictKeys(d) == {kv[1] : kv \in d}

DictGet(d, k) == (CHOOSE kv \in d : kv[1] = k)[2]

---------------------------------------------------------------------------
(* The files a user can pick: what the file system and the backends answer *)

Backends == {"SimpleITK", "nibabel", "vtk"}

\* exists: os.path.exists; dir: basename(dirname(path)); stem, ext: splitext;
\* name: basename, as characters; reads: the backends that read the file
\* without raising; tags: the metadata keys SimpleITK reports for it
FileSystem ==
    [p \in {"study1/T2.nii", "study1/adc.nii", "adc.mha", "study1/gone.nii"} |->
        CASE p = "study1/T2.nii" ->
               [exists |-> TRUE, dir |-> "study1", stem |-> "T2", ext |-> ".nii",
                name |-> <<"T", "2", ".", "n", "i", "i">>,
                reads |-> {"SimpleITK", "nibabel", "vtk"},
                tags |-> {<<"PatientID", [kind |-> "str", val |-> <<"P001">>]>>}]
          [] p = "study1/adc.nii" ->
               [exists |-> TRUE, dir |-> "study1", stem |-> "adc", ext |-> ".nii",
                name |-> <<"a", "d", "c", ".", "n", "i", "i">>,
                reads |-> {"SimpleITK", "nibabel", "vtk"},
                tags |-> {}]
          [] p = "adc.mha" ->
               [exists |-> TRUE, dir |-> "", stem |-> "adc", ext |-> ".mha",
                name |-> <<"a", "d", "c", ".", "m", "h", "a">>,
                reads |-> {},
                tags |-> {}]
          [] OTHER ->
               [exists |-> FALSE, dir |-> "study1", stem |-> "gone", ext |-> ".nii",
                name |-> <<"g", "o", "n", "e", ".", "n", "i", "i">>,
                reads |-> {},
                tags |-> {}]]

Paths == DOMAIN FileSystem

\* the path lists a user hands to load_case: none, only a missing file, a
\* missing file before a good one, one good file, two good files
PathLists ==
    {<<>>,
     <<"study1/gone.nii">>,
     <<"study1/gone.nii", "study1/T2.nii">>,
     <<"adc.mha">>,
     <<"study1/T2.nii", "adc.mha">>}

---------------------------------------------------------------------------
(* app/utils/image_loader.py *)

Tuple3 == [kind |-> "tuple", val |-> <<"3", "2", "1">>]

\* the SimpleITK metadata of a file f of the file system
SitkMetadataOf(f) ==
    DictUpdate({<<"dimensions", Tuple3>>, <<"spacing", Tuple3>>,
                <<"origin", Tuple3>>, <<"direction", Tuple3>>},
               f.tags)

SitkMetadata(p) == SitkMetadataOf(FileSystem[p])

NibabelMetadata(p) ==
    {<<"dimensions", Tuple3>>,
     <<"affine", [kind |-> "list", val |-> <<"1", "0", "0", "1">>]>>,
     <<"header", [kind |-> "dict", val |-> <<"sizeof_hdr">>]>>}

VtkMetadata(p) ==
    {<<"dimensions", Tuple3>>, <<"spacing", Tuple3>>, <<"origin", Tuple3>>}

BasicMetadata(p) ==
    {<<"file_size", [kind |-> "int", val |-> <<"1024">>]>>,
     <<"last_modified", [kind |-> "float", val |-> <<"1700000000.5">>]>>}

\* _check_module(name)
CheckModule(m) == m \in installed

\* the backend load_medical_image ends up using for an existing file f
LoadedWithFile(f) ==
    IF CheckModule("SimpleITK") /\ "SimpleITK" \in f.reads THEN "SimpleITK"
    ELSE IF CheckModule("nibabel") /\ f.ext \in {".nii", ".nii.gz"}
            /\ "nibabel" \in f.reads THEN "nibabel"
    ELSE IF CheckModule("vtk") /\ "vtk" \in f.reads THEN "VTK"
    ELSE "basic_info"

LoadedWith(p) == LoadedWithFile(FileSystem[p])

\* load_medical_image(file_path) where the file at file_path is f: <<>> for
\* None, <<record>> otherwise.  The record's array is "ndarray", "None", or
\* "absent" once the key is deleted.
LoadImage(p, f) ==
    IF ~ f.exists THEN <<>>
    ELSE LET by == LoadedWithFile(f)
         IN  <<[path |-> p,
                format |-> f.ext,
                loaded_with |-> by,
                array |-> IF by = "basic_info" THEN "None" ELSE "ndarray",
                metadata |-> CASE by = "SimpleITK" -> SitkMetadataOf(f)
                               [] by = "nibabel" -> NibabelMetadata(p)
                               [] by = "VTK" -> VtkMetadata(p)
                               [] OTHER -> BasicMetadata(p),
                sequence_type |-> "unset"]>>

load_medical_image(p) == LoadImage(p, FileSystem[p])

---------------------------------------------------------------------------
(* app/controllers/case_manager.py: helpers *)

\* the rules tried with 'adc' before 't2'
InferSequenceType_AdcFirst(name) ==
    LET file_name == Lower(name)
    IN  IF Contains(file_name, <<"a", "d", "c">>) THEN "adc"
        ELSE IF Contains(file_name, <<"t", "2">>) \/ Contains(file_name, <<"t", "2", "w">>)
          THEN "t2w"
        ELSE IF Contains(file_name, <<"d", "w", "i">>)
                \/ Contains(file_name, <<"h", "b", "v">>) THEN "dwi"
        ELSE IF Contains(file_name, <<"c", "o", "r">>) THEN "cor"
        ELSE IF Contains(file_name, <<"s", "a", "g">>) THEN "sag"
        ELSE "unknown"

\* the sequence type _process_file infers from a file name (basename, as
\* characters), lines 157-171
InferSequenceType(name) ==
    LET file_name == Lower(name)
    IN  IF Contains(file_name, <<"t", "2">>) \/ Contains(file_name, <<"t", "2", "w">>)
          THEN "t2w"
        ELSE IF Contains(file_name, <<"a", "d", "c">>) THEN "adc"
        ELSE IF Contains(file_name, <<"d", "w", "i">>)
                \/ Contains(file_name, <<"h", "b", "v">>) THEN "dwi"
        ELSE IF Contains(file_name, <<"c", "o", "r">>) THEN "cor"
        ELSE IF Contains(file_name, <<"s", "a", "g">>) THEN "sag"
        ELSE "unknown"

SequenceTypeOf(p) == InferSequenceType(FileSystem[p].name)

\* _process_file(file_path): <<>> when it raises ValueError, <<file_info>> otherwise
ProcessFile(p) ==
    LET file_info == load_medical_image(p)
    IN  IF file_info = <<>> THEN <<>>
        ELSE <<[file_info[1] EXCEPT !.sequence_type = SequenceTypeOf(p)]>>

\* a loop that puts each new record first
RECURSIVE ProcessedFiles_Prepend(_)
ProcessedFiles_Prepend(file_paths) ==
    IF file_paths = <<>> THEN <<>>
    ELSE ProcessedFiles_Prepend(Tail(file_paths)) \o ProcessFile(Head(file_paths))

\* load_case's loop: the records of the files that were processed, in order
RECURSIVE ProcessedFiles(_)
ProcessedFiles(file_paths) ==
    IF file_paths = <<>> THEN <<>>
    ELSE ProcessFile(Head(file_paths)) \o ProcessedFiles(Tail(file_paths))

\* _generate_case_name(file_paths)
GenerateCaseName(file_paths) ==
    IF file_paths = <<>> THEN <<"Caso sin nombre">>
    ELSE LET first_file == FileSystem[file_paths[1]]
         IN  IF first_file.dir # "" THEN <<"Caso", first_file.dir>>
             ELSE <<"Caso", first_file.stem>>

\* the metadata keys whose lower-cased name holds 'patientid' / 'studydate'
PatientIdKeys == {"PatientID"}
StudyDateKeys == {"StudyDate"}

\* _extract_case_metadata(case): the case metadata taken from the first file
ExtractCaseMetadata(files) ==
    IF files = <<>> THEN {}
    ELSE LET metadata == files[1].metadata
             pid == DictKeys(metadata) \cap PatientIdKeys
             sdt == DictKeys(metadata) \cap StudyDateKeys
         IN  (IF pid = {} THEN {}
              ELSE {<<"patient_id", DictGet(metadata, CHOOSE k \in pid : TRUE)>>})
             \cup
             (IF sdt = {} THEN {}
              ELSE {<<"study_date", DictGet(metadata, CHOOSE k \in sdt : TRUE)>>})

\* the id load_case gives a case created at second t
CaseId(t) == <<"case", t>>

\* the case dict load_case builds from the processed files
NewCase(file_paths, files, t) ==
    [id |-> CaseId(t),
     name |-> GenerateCaseName(file_paths),
     files |-> files,
     metadata |-> ExtractCaseMetadata(files),
     created_date |-> t,
     modified_date |-> t,
     has_changes |-> FALSE,
     prediction_results |-> <<>>]

\* the guard every *_current_case method starts with
HasCurrent == ~ (current_case_index < 0 \/ current_case_index >= Len(cases))

\* get_current_case(): <<>> for None
get_current_case == IF HasCurrent THEN <<cases[current_case_index + 1]>> ELSE <<>>

\* has_open_cases()
has_open_cases == Len(cases) > 0

\* current_case_has_changes()
current_case_has_changes ==
    IF HasCurrent THEN cases[current_case_index + 1].has_changes ELSE FALSE

\* what a call leaves in lastCall
Call(op, paths, path, result, emitted) ==
    [op |-> op, paths |-> paths, path |-> path, result |-> result, emitted |-> emitted]

NoPath == <<>>

---------------------------------------------------------------------------
(* json.dump / json.load as save_current_case and load_case_from_file use them *)

\* json.dump raises TypeError on a numpy array
JsonSerializable(v) == v.kind # "ndarray"

\* a tuple is written as a JSON array, which json.load reads back as a list
JsonValue(v) == IF v.kind = "tuple" THEN [v EXCEPT !.kind = "list"] ELSE v

JsonDict(d) == {<<kv[1], JsonValue(kv[2])>> : kv \in d}

DictSerializable(d) == \A kv \in d : JsonSerializable(kv[2])

FileSerializable(f) == f.array # "ndarray" /\ DictSerializable(f.metadata)

ResultsSerializable(r) == JsonSerializable(r.segmentation)

CaseSerializable(c) ==
    /\ \A k \in 1..Len(c.files) : FileSerializable(c.files[k])
    /\ DictSerializable(c.metadata)
    /\ c.prediction_results # <<>> => ResultsSerializable(c.prediction_results[1])

\* the document json.dump writes for a serializable case, as json.load reads it
JsonCase(c) ==
    [c EXCEPT !.files = [k \in 1..Len(c.files) |->
                            [c.files[k] EXCEPT !.metadata = JsonDict(@)]],
              !.metadata = JsonDict(@)]

\* the loop of save_current_case over save_data['files'], which are the
\* current case's own file dicts (dict.copy() is shallow)
StripArrays(files) == [k \in 1..Len(files) |-> [files[k] EXCEPT !.array = "absent"]]

\* the files save_current_case can be asked to write: None (the default
\* TEMP_DIR/<id>.json), a writable path, a path in a directory that is missing
SaveTargets == {<<>>, <<"out">>, <<"nodir">>}

DefaultPath(c) == <<"TEMP_DIR", c.id[2]>>

DiskPaths == {<<"out">>} \cup {<<"TEMP_DIR", t>> : t \in 0..MaxCalls}

NoFile == <<>>
Corrupt == <<"corrupt">>

\* a JSON document that is an array of strings, as json.load returns it
JsonList(items) == [json_list |-> items]

\* json.load returned a dict
IsJsonObject(doc) == "json_list" \notin DOMAIN doc

\* all(key in case for key in [...]), line 345: keys of a dict, elements of a
\* list; a document written by save_current_case has them all
HasRequiredKeys(doc) ==
    IF IsJsonObject(doc)
    THEN {"id", "name", "files", "metadata"} \subseteq DOMAIN doc
    ELSE {"id", "name", "files", "metadata"} \subseteq Range(doc.json_list)

\* open + json.load: <<>> when either raises, <<case>> otherwise
ReadJson(path) ==
    IF path \notin DOMAIN disk THEN <<>>
    ELSE IF disk[path] = NoFile \/ disk[path] = Corrupt THEN <<>>
    ELSE <<disk[path][2]>>

---------------------------------------------------------------------------
(* PredictionWorker._process_results: the inputs *)

\* the voxels of the probability volume, as SimpleITK indexes them: <<x, y, z>>
Voxels == (1..GridX) \X (1..2) \X (1..1)

RECURSIVE Factorial(_)
Factorial(n) == IF n <= 1 THEN 1 ELSE n * Factorial(n - 1)

\* Probabilities are fixed-point numbers: Pct(n) is n / 100. The unit is
\* chosen so that the mean of up to Cardinality(Voxels) values is exact.
Pct(n) == n * Factorial(Cardinality(Voxels))

\* the per-voxel probabilities the model output can take
ProbValues == {Pct(30), Pct(50), Pct(60), Pct(90)}

\* physical volume of a voxel in mm3 (product of the T2W spacing)
VoxelVolumes == {100, 250}

\* config.MODEL_THRESHOLD = 0.5
MODEL_THRESHOLD == Pct(50)

---------------------------------------------------------------------------
(* PredictionWorker._process_results: the steps *)

\* the mask taken with >= MODEL_THRESHOLD
LesionMask_Inclusive(prob) == {v \in Voxels : prob[v] >= MODEL_THRESHOLD}

\* lesion_mask = (lesion_probability > MODEL_THRESHOLD), as the set of its 1-voxels
LesionMask(prob) == {v \in Voxels : prob[v] > MODEL_THRESHOLD}

\* vertex connectivity, what fullyConnected = True would give
Adjacent_FullyConnected(v, w) ==
    /\ v # w
    /\ \A k \in 1..3 : v[k] - w[k] \in {-1, 0, 1}

\* face connectivity, sitk.ConnectedComponent's default (fullyConnected = False)
Adjacent(v, w) ==
    LET d(k) == IF v[k] >= w[k] THEN v[k] - w[k] ELSE w[k] - v[k]
    IN  d(1) + d(2) + d(3) = 1

RECURSIVE Grow(_, _)
Grow(mask, S) ==
    LET next == S \cup {w \in mask : \E v \in S : Adjacent(v, w)}
    IN  IF next = S THEN S ELSE Grow(mask, next)

\* the connected component of mask that holds v
Component(mask, v) == Grow(mask, {v})

\* position of a voxel in the scan order of the image buffer (x fastest)
RasterIndex(v) == (v[1] - 1) + GridX * ((v[2] - 1) + 2 * (v[3] - 1))

FirstVoxel(S) == CHOOSE v \in S : \A w \in S : RasterIndex(v) <= RasterIndex(w)

\* sitk.ConnectedComponent: the label image, 0 for background; the objects
\* are numbered 1, 2, ... in the order the scan meets them
RECURSIVE LabelObjects(_, _)
LabelObjects(mask, label) ==
    IF mask = {} THEN [v \in {} |-> 0]
    ELSE LET object == Component(mask, FirstVoxel(mask))
         IN  [v \in object |-> label] @@ LabelObjects(mask \ object, label + 1)

ConnectedComponent(mask) == LabelObjects(mask, 1) @@ [v \in Voxels |-> 0]

\* stats.GetLabels(): the labels present, ascending, as a sequence
GetLabels(cc) ==
    LET n == Cardinality({cc[v] : v \in Voxels} \ {0})
    IN  [k \in 1..n |-> k]

\* label_mask = (connected_components == label)
LabelMask(cc, label) == {v \in Voxels : cc[v] = label}

\* stats.GetPhysicalSize(label)
GetPhysicalSize(cc, label, vv) == Cardinality(LabelMask(cc, label)) * vv

RECURSIVE SumOver(_, _)
SumOver(f, S) ==
    IF S = {} THEN 0
    ELSE LET v == CHOOSE x \in S : TRUE
         IN  f[v] + SumOver(f, S \ {v})

\* np.mean(lesion_probability[label_mask])
MeanProbability(prob, mask) == SumOver(prob, mask) \div Cardinality(mask)

\* stats.GetCentroid(label), in index units scaled like the probabilities
Centroid(mask) ==
    [k \in 1..3 |->
        SumOver([v \in Voxels |-> v[k] * Factorial(Cardinality(Voxels))], mask)
            \div Cardinality(mask)]

\* the thresholds compared with >= instead of >
Severity_Inclusive(volume_mm3, mean_probability) ==
    IF volume_mm3 >= 500 /\ mean_probability >= Pct(75) THEN "Alta"
    ELSE IF volume_mm3 >= 200 \/ mean_probability >= Pct(60) THEN "Media"
    ELSE "Baja"

\* lines 333-338
Severity(volume_mm3, mean_probability) ==
    IF volume_mm3 > 500 /\ mean_probability > Pct(75) THEN "Alta"
    ELSE IF volume_mm3 > 200 \/ mean_probability > Pct(60) THEN "Media"
    ELSE "Baja"

\* the body of the loop over stats.GetLabels().
\* max_diameter_mm comes from the principal axes SimpleITK reports and is
\* read by none of the operations below; it is left out of the record.
LesionOf(prob, cc, label, vv) ==
    LET volume_mm3 == GetPhysicalSize(cc, label, vv)
        label_mask == LabelMask(cc, label)
        mean_probability == MeanProbability(prob, label_mask)
    IN  [id |-> label,
         volume_mm3 |-> volume_mm3,
         centroid |-> Centroid(label_mask),
         probability |-> mean_probability,
         severity |-> Severity(volume_mm3, mean_probability)]

\* a sort that puts an element before the elements of equal key
InsertByVolume_Unstable(sorted, l) ==
    LET before == Cardinality({k \in 1..Len(sorted) :
                                  sorted[k].volume_mm3 > l.volume_mm3})
    IN  SubSeq(sorted, 1, before) \o <<l>> \o SubSeq(sorted, before + 1, Len(sorted))

\* list.sort(key=volume_mm3, reverse=True) is stable: an element goes after
\* every element whose key is greater or equal
InsertByVolume(sorted, l) ==
    LET before == Cardinality({k \in 1..Len(sorted) :
                                  sorted[k].volume_mm3 >= l.volume_mm3})
    IN  SubSeq(sorted, 1, before) \o <<l>> \o SubSeq(sorted, before + 1, Len(sorted))

RECURSIVE SortByVolume(_)
SortByVolume(lesions) ==
    IF lesions = <<>> THEN <<>>
    ELSE InsertByVolume(SortByVolume(SubSeq(lesions, 1, Len(lesions) - 1)),
                        Last(lesions))

\* the total taken from the largest lesion alone
SumVolumes_First(lesions) ==
    IF lesions = <<>> THEN 0 ELSE Head(lesions).volume_mm3

\* sum(lesion['volume_mm3'] for lesion in lesions), line 358
RECURSIVE SumVolumes(_)
SumVolumes(lesions) ==
    IF lesions = <<>> THEN 0
    ELSE Head(lesions).volume_mm3 + SumVolumes(Tail(lesions))

AnyAlta(lesions) == \E k \in 1..Len(lesions) : lesions[k].severity = "Alta"

\* the results dict, lines 353-360
ResultsDict(mask, lesions, t) ==
    [segmentation |-> [kind |-> "ndarray", mask |-> mask],
     lesions |-> lesions,
     num_lesions |-> Len(lesions),
     has_significant_lesion |-> AnyAlta(lesions),
     total_lesion_volume |-> SumVolumes(lesions),
     prediction_date |-> t]

\* _process_results(prediction_result) for a well-formed prediction_result
ProcessResults(prob, vv, t) ==
    LET lesion_mask == LesionMask(prob)
        connected_components == ConnectedComponent(lesion_mask)
        labels == GetLabels(connected_components)
        lesions == [k \in 1..Len(labels) |->
                       LesionOf(prob, connected_components, labels[k], vv)]
    IN  ResultsDict(lesion_mask, SortByVolume(lesions), t)

\* the label masks of a run, by label
LabelMasksOf(prob) ==
    LET cc == ConnectedComponent(LesionMask(prob))
        labels == GetLabels(cc)
    IN  [k \in 1..Len(labels) |-> LabelMask(cc, labels[k])]

---------------------------------------------------------------------------
(* The inputs of the Case Manager's operations *)

\* a probability volume with one lesion in the corner and one voxel on the threshold
SampleVolume ==
    [v \in Voxels |-> IF v = <<1, 1, 1>> THEN Pct(90)
                      ELSE IF v = <<1, 2, 1>> THEN Pct(50) ELSE Pct(30)]

\* the results dicts handed to set_current_case_prediction_results
ResultsInputs == {ProcessResults(SampleVolume, 250, 0)}

\* the dicts handed to update_current_case_metadata
MetadataInputs ==
    {{<<"patient_id", [kind |-> "str", val |-> <<"P002">>]>>}}

---------------------------------------------------------------------------
(* CaseManager: the operations *)

CurrentCase == cases[current_case_index + 1]

\* a call is made: the model stops after MaxCalls of them. The worker's
\* post-processing state and the prediction controller are not touched by
\* the Case Manager.
Counted ==
    /\ calls < MaxCalls
    /\ calls' = calls + 1
    /\ UNCHANGED <<postVars, ctrlVars, fileVars>>

\* A worker holds the case dict itself (PredictionWorker.__init__, line 58):
\* a reference to the case at a position of self.cases, or, once that case
\* was popped from the list, to the dict as it was left.
Listed(position) == <<"listed", position>>
Unlisted(case) == <<"unlisted", case>>
DerefIn(case_list, ref) == IF ref[1] = "listed" THEN case_list[ref[2]] ELSE ref[2]
Deref(ref) == DerefIn(cases, ref)

\* the reference after self.cases.pop(position - 1)
RefAfterPop(ref, position) ==
    IF ref[1] # "listed" THEN ref
    ELSE IF ref[2] = position THEN Unlisted(cases[position])
    ELSE IF ref[2] > position THEN Listed(ref[2] - 1)
    ELSE ref

\* the workers' references after self.cases.pop(position - 1)
WorkersAfterPop(position) ==
    [w \in DOMAIN workers |->
        [workers[w] EXCEPT !.case_data = RefAfterPop(@, position)]]

\* the workers' references after self.cases = []
WorkersAfterClear ==
    [w \in DOMAIN workers |->
        [workers[w] EXCEPT !.case_data = Unlisted(Deref(@))]]

\* ViewerWidget.__init__ and what its widgets show: the case, the entries of
\* the sequence selector, the selected index, the image loaded for display
\* (<<>> for None) and whether the prediction overlay is switched on
NewViewer ==
    [case_data |-> <<>>, sequence_combo |-> <<>>, current_index |-> -1,
     image_data |-> <<>>, overlay |-> FALSE]

\* ViewerWidget.clear(); clearing the selector emits currentIndexChanged(-1),
\* which on_sequence_changed ignores
ViewerClear(v) ==
    [v EXCEPT !.case_data = <<>>, !.image_data = <<>>,
              !.sequence_combo = <<>>, !.current_index = -1, !.overlay = FALSE]

\* ViewerWidget.load_current_sequence() while the case list is case_list
ViewerLoadCurrentSequence(v, case_list) ==
    IF v.case_data = <<>> THEN v
    ELSE LET files == DerefIn(case_list, v.case_data[1]).files
         IN  IF v.current_index < 0 \/ v.current_index >= Len(files) THEN v
             ELSE LET file_path == files[v.current_index + 1].path
                  IN  IF \/ "SimpleITK" \in installed
                            /\ "SimpleITK" \in FileSystem[file_path].reads
                         \/ "vtk" \in FileSystem[file_path].reads
                      THEN [v EXCEPT !.image_data = <<file_path>>]
                      ELSE v

\* the selector after addItem(...) for each file: the first item added to an
\* empty selector becomes the current one and currentIndexChanged(0) runs
\* on_sequence_changed, hence load_current_sequence
ViewerFillCombo(v, files, case_list) ==
    LET items == [k \in 1..Len(files) |-> <<files[k].sequence_type, files[k].path>>]
        first == [v EXCEPT !.sequence_combo = <<items[1]>>, !.current_index = 0]
    IN  [ViewerLoadCurrentSequence(first, case_list) EXCEPT !.sequence_combo = items]

\* ViewerWidget.load_case_data(case_data), the statements in their order
ViewerLoadCaseData(v, ref, case_list) ==
    LET assigned == [v EXCEPT !.case_data = <<ref>>]
        cleared == ViewerClear(assigned)
        files == DerefIn(case_list, ref).files
    IN  IF files = <<>> THEN cleared
        ELSE ViewerLoadCurrentSequence(ViewerFillCombo(cleared, files, case_list),
                                       case_list)

\* MainWindow.on_case_loaded(case_data): the case is the one just made current
OnCaseLoaded ==
    /\ predict_enabled' = TRUE
    /\ viewer' = ViewerLoadCaseData(viewer, Listed(current_case_index' + 1), cases')
    /\ UNCHANGED report_enabled

\* MainWindow.on_case_closed()
OnCaseClosed ==
    /\ predict_enabled' = FALSE
    /\ report_enabled' = FALSE
    /\ viewer' = ViewerClear(viewer)

\* the slots of MainWindow connected to the Case Manager's signals run inside
\* the call that emits them (setup_connections, direct connections)
WindowHears ==
    IF "case_loaded" \in Range(lastCall'.emitted) THEN OnCaseLoaded
    ELSE IF "case_closed" \in Range(lastCall'.emitted) THEN OnCaseClosed
    ELSE UNCHANGED winVars

\* self.cases with the current case replaced by c
WithCurrent(c) == [cases EXCEPT ![current_case_index + 1] = c]

\* "Marcar como modificado"
Touched(c) == [c EXCEPT !.modified_date = clock, !.has_changes = TRUE]

\* load_case without the check that some file was processed
LoadCase_NoFilesCheck(file_paths) ==
    /\ Counted
    /\ LET files == ProcessedFiles(file_paths)
       IN  IF file_paths = <<>>
           THEN /\ lastCall' = Call("load_case", file_paths, NoPath, "ValueError", <<>>)
                /\ UNCHANGED <<cases, current_case_index>>
           ELSE /\ cases' = Append(cases, NewCase(file_paths, files, clock))
                /\ current_case_index' = Len(cases') - 1
                /\ lastCall' = Call("load_case", file_paths, NoPath, "ok",
                                    <<"case_loaded">>)
    /\ UNCHANGED <<disk, clock, installed, workers>>
    /\ WindowHears

\* load_case(file_paths)
LoadCase(file_paths) ==
    /\ Counted
    /\ LET files == ProcessedFiles(file_paths)
       IN  IF file_paths = <<>> \/ files = <<>>
           THEN /\ lastCall' = Call("load_case", file_paths, NoPath, "ValueError", <<>>)
                /\ UNCHANGED <<cases, current_case_index>>
           ELSE /\ cases' = Append(cases, NewCase(file_paths, files, clock))
                /\ current_case_index' = Len(cases') - 1
                /\ lastCall' = Call("load_case", file_paths, NoPath, "ok",
                                    <<"case_loaded">>)
    /\ UNCHANGED <<disk, clock, installed, workers>>
    /\ WindowHears

\* the index left as it was
IndexAfterPop_Stale(index, remaining) == index

\* lines 244-248: the index after the current case was popped
IndexAfterPop(index, remaining) ==
    IF remaining = 0 THEN -1
    ELSE IF index >= remaining THEN remaining - 1
    ELSE index

\* close_current_case without its case_closed.emit()
CloseCurrentCase_Silent ==
    /\ Counted
    /\ IF ~ HasCurrent
       THEN /\ lastCall' = Call("close_current_case", <<>>, NoPath, "None", <<>>)
            /\ UNCHANGED <<cases, current_case_index, workers>>
       ELSE /\ cases' = RemoveAt(cases, current_case_index + 1)
            /\ workers' = WorkersAfterPop(current_case_index + 1)
            /\ current_case_index' = IndexAfterPop(current_case_index, Len(cases'))
            /\ lastCall' = Call("close_current_case", <<>>, NoPath, "None", <<>>)
    /\ UNCHANGED <<disk, clock, installed>>
    /\ WindowHears

\* close_current_case()
CloseCurrentCase ==
    /\ Counted
    /\ IF ~ HasCurrent
       THEN /\ lastCall' = Call("close_current_case", <<>>, NoPath, "None", <<>>)
            /\ UNCHANGED <<cases, current_case_index, workers>>
       ELSE /\ cases' = RemoveAt(cases, current_case_index + 1)
            /\ workers' = WorkersAfterPop(current_case_index + 1)
            /\ current_case_index' = IndexAfterPop(current_case_index, Len(cases'))
            /\ lastCall' = Call("close_current_case", <<>>, NoPath, "None",
                                <<"case_closed">>)
    /\ UNCHANGED <<disk, clock, installed>>
    /\ WindowHears

\* close_all_cases()
CloseAllCases ==
    /\ Counted
    /\ cases' = <<>>
    /\ workers' = WorkersAfterClear
    /\ current_case_index' = -1
    /\ lastCall' = Call("close_all_cases", <<>>, NoPath, "None", <<"case_closed">>)
    /\ UNCHANGED <<disk, clock, installed>>
    /\ WindowHears

\* add_file_to_current_case(file_path)
AddFileToCurrentCase(p) ==
    /\ Counted
    /\ IF ~ HasCurrent \/ ProcessFile(p) = <<>>
       THEN /\ lastCall' = Call("add_file_to_current_case", <<p>>, NoPath,
                                "ValueError", <<>>)
            /\ UNCHANGED cases
       ELSE /\ cases' = WithCurrent(
                   Touched([CurrentCase EXCEPT !.files = @ \o ProcessFile(p)]))
            /\ lastCall' = Call("add_file_to_current_case", <<p>>, NoPath,
                                "True", <<"case_loaded">>)
    /\ UNCHANGED <<current_case_index, disk, clock, installed, workers>>
    /\ WindowHears

\* remove_file_from_current_case(file_index)
RemoveFileFromCurrentCase(file_index) ==
    /\ Counted
    /\ IF ~ HasCurrent \/ file_index < 0 \/ file_index >= Len(CurrentCase.files)
       THEN /\ lastCall' = Call("remove_file_from_current_case", <<>>, NoPath,
                                "False", <<>>)
            /\ UNCHANGED cases
       ELSE /\ cases' = WithCurrent(
                   Touched([CurrentCase EXCEPT !.files = RemoveAt(@, file_index + 1)]))
            /\ lastCall' = Call("remove_file_from_current_case", <<>>, NoPath,
                                "True", <<"case_loaded">>)
    /\ UNCHANGED <<current_case_index, disk, clock, installed, workers>>
    /\ WindowHears

\* update_current_case_metadata(metadata)
UpdateCurrentCaseMetadata(metadata) ==
    /\ Counted
    /\ IF ~ HasCurrent
       THEN /\ lastCall' = Call("update_current_case_metadata", <<>>, NoPath,
                                "False", <<>>)
            /\ UNCHANGED cases
       ELSE /\ cases' = WithCurrent(
                   Touched([CurrentCase EXCEPT !.metadata = DictUpdate(@, metadata)]))
            /\ lastCall' = Call("update_current_case_metadata", <<>>, NoPath,
                                "True", <<>>)
    /\ UNCHANGED <<current_case_index, disk, clock, installed, workers>>
    /\ WindowHears

\* set_current_case_prediction_results(results)
SetCurrentCasePredictionResults(r) ==
    /\ Counted
    /\ IF ~ HasCurrent
       THEN /\ lastCall' = Call("set_current_case_prediction_results", <<>>, NoPath,
                                "False", <<>>)
            /\ UNCHANGED cases
       ELSE /\ cases' = WithCurrent(
                   Touched([CurrentCase EXCEPT !.prediction_results = <<r>>]))
            /\ lastCall' = Call("set_current_case_prediction_results", <<>>, NoPath,
                                "True", <<>>)
    /\ UNCHANGED <<current_case_index, disk, clock, installed, workers>>
    /\ WindowHears

\* save_current_case marking the case as saved before it is written
SaveCurrentCase_MarksFirst(target) ==
    /\ Counted
    /\ IF ~ HasCurrent
       THEN /\ lastCall' = Call("save_current_case", <<>>, target, "False", <<>>)
            /\ UNCHANGED <<cases, disk>>
       ELSE LET file_path == IF target = <<>> THEN DefaultPath(CurrentCase) ELSE target
                dated == [CurrentCase EXCEPT !.modified_date = clock,
                                             !.has_changes = FALSE]
                stripped == [dated EXCEPT !.files = StripArrays(@)]
            IN  IF file_path \notin DiskPaths
                THEN /\ cases' = WithCurrent(dated)
                     /\ UNCHANGED disk
                     /\ lastCall' = Call("save_current_case", <<>>, file_path,
                                         "False", <<>>)
                ELSE IF ~ CaseSerializable(stripped)
                THEN /\ cases' = WithCurrent(stripped)
                     /\ disk' = [disk EXCEPT ![file_path] = Corrupt]
                     /\ lastCall' = Call("save_current_case", <<>>, file_path,
                                         "False", <<>>)
                ELSE /\ cases' = WithCurrent(stripped)
                     /\ disk' = [disk EXCEPT ![file_path] = <<"case", JsonCase(stripped)>>]
                     /\ lastCall' = Call("save_current_case", <<>>, file_path,
                                         "True", <<"case_saved">>)
    /\ UNCHANGED <<current_case_index, clock, installed, workers>>
    /\ WindowHears

\* save_current_case(file_path)
SaveCurrentCase(target) ==
    /\ Counted
    /\ IF ~ HasCurrent
       THEN /\ lastCall' = Call("save_current_case", <<>>, target, "False", <<>>)
            /\ UNCHANGED <<cases, disk>>
       ELSE LET file_path == IF target = <<>> THEN DefaultPath(CurrentCase) ELSE target
                dated == [CurrentCase EXCEPT !.modified_date = clock]
                stripped == [dated EXCEPT !.files = StripArrays(@)]
            IN  IF file_path \notin DiskPaths
                THEN \* open() raises: no such directory
                     /\ cases' = WithCurrent(dated)
                     /\ UNCHANGED disk
                     /\ lastCall' = Call("save_current_case", <<>>, file_path,
                                         "False", <<>>)
                ELSE IF ~ CaseSerializable(stripped)
                THEN \* json.dump raises after the file was opened for writing
                     /\ cases' = WithCurrent(stripped)
                     /\ disk' = [disk EXCEPT ![file_path] = Corrupt]
                     /\ lastCall' = Call("save_current_case", <<>>, file_path,
                                         "False", <<>>)
                ELSE /\ cases' = WithCurrent([stripped EXCEPT !.has_changes = FALSE])
                     /\ disk' = [disk EXCEPT ![file_path] = <<"case", JsonCase(stripped)>>]
                     /\ lastCall' = Call("save_current_case", <<>>, file_path,
                                         "True", <<"case_saved">>)
    /\ UNCHANGED <<current_case_index, clock, installed, workers>>
    /\ WindowHears

\* load_case_from_file(file_path)
LoadCaseFromFile(file_path) ==
    /\ Counted
    /\ LET read == ReadJson(file_path)
       IN  IF read = <<>> \/ ~ HasRequiredKeys(read[1])
           THEN /\ lastCall' = Call("load_case_from_file", <<>>, file_path,
                                    "ValueError", <<>>)
                /\ UNCHANGED <<cases, current_case_index>>
           ELSE /\ cases' = Append(cases, read[1])
                /\ current_case_index' = Len(cases') - 1
                /\ IF IsJsonObject(read[1])
                   THEN lastCall' = Call("load_case_from_file", <<>>, file_path, "ok",
                                         <<"case_loaded">>)
                   ELSE \* case_loaded is pyqtSignal(dict): emit raises TypeError,
                        \* which line 358 turns into ValueError
                        lastCall' = Call("load_case_from_file", <<>>, file_path,
                                         "ValueError", <<>>)
    /\ UNCHANGED <<disk, clock, installed, workers>>
    /\ WindowHears

\* a second passes
Tick ==
    /\ Counted
    /\ clock' = clock + 1
    /\ lastCall' = Call("tick", <<>>, NoPath, "None", <<>>)
    /\ UNCHANGED <<cases, current_case_index, disk, installed, workers>>
    /\ WindowHears

\* MainWindow.__init__: no case is shown, predict and report are disabled
NoWindow ==
    /\ predict_enabled = FALSE
    /\ report_enabled = FALSE
    /\ viewer = NewViewer

\* _process_file has not been called on a file of its own
NoFileGiven ==
    /\ image_file = FileSystem["study1/gone.nii"]
    /\ image_info = <<>>
    /\ file_pc = "idle"

\* PredictionController.__init__ where every dependency and the model exist
NoPrediction ==
    /\ workers = <<>>
    /\ last_results = <<>>
    /\ model_path = "prostate_segmentation_model.pth"
    /\ ui_queue = <<>>
    /\ torch_available = TRUE
    /\ model_files = {"prostate_segmentation_model.pth"}

\* CaseManager.__init__, on a machine with some set of backends installed
Init ==
    /\ cases = <<>>
    /\ current_case_index = -1
    /\ disk = [p \in DiskPaths |-> NoFile]
    /\ clock = 0
    /\ calls = 0
    /\ installed = Backends
    /\ lastCall = Call("init", <<>>, NoPath, "None", <<>>)
    /\ lesion_probability = SampleVolume
    /\ voxel_volume = 250
    /\ post_pc = "idle"
    /\ results = <<>>
    /\ label_masks = <<>>
    /\ NoFileGiven
    /\ NoWindow
    /\ NoPrediction

\* the files load_case_from_file is asked to read: those that were written,
\* and one that does not exist
LoadTargets == {f \in DiskPaths : disk[f] # NoFile} \cup {<<"nodir">>}

\* one call to the Case Manager, or a tick of the clock
Next ==
    \/ \E file_paths \in PathLists : LoadCase(file_paths)
    \/ CloseCurrentCase
    \/ CloseAllCases
    \/ \E p \in Paths : AddFileToCurrentCase(p)
    \/ \E i \in {-1, 0, 1} : RemoveFileFromCurrentCase(i)
    \/ \E m \in MetadataInputs : UpdateCurrentCaseMetadata(m)
    \/ \E r \in ResultsInputs : SetCurrentCasePredictionResults(r)
    \/ \E t \in SaveTargets : SaveCurrentCase(t)
    \/ \E f \in LoadTargets : LoadCaseFromFile(f)
    \/ Tick


Spec == Init /\ [][Next]_vars

---------------------------------------------------------------------------
(* _process_results on every small probability volume *)

PostProcess ==
    /\ post_pc = "ready"
    /\ results' = <<ProcessResults(lesion_probability, voxel_volume, clock)>>
    /\ label_masks' = LabelMasksOf(lesion_probability)
    /\ post_pc' = "done"
    /\ UNCHANGED <<lesion_probability, voxel_volume, caseVars, predVars, fileVars, winVars>>

InitPost ==
    /\ cases = <<>>
    /\ current_case_index = -1
    /\ disk = [p \in DiskPaths |-> NoFile]
    /\ clock = 0
    /\ calls = 0
    /\ installed = Backends
    /\ lastCall = Call("init", <<>>, NoPath, "None", <<>>)
    /\ lesion_probability \in [Voxels -> ProbValues]
    /\ voxel_volume \in VoxelVolumes
    /\ post_pc = "ready"
    /\ results = <<>>
    /\ label_masks = <<>>
    /\ NoFileGiven
    /\ NoWindow
    /\ NoPrediction

NextPost == PostProcess

SpecPost == InitPost /\ [][NextPost]_vars

---------------------------------------------------------------------------
(* app/controllers/prediction_controller.py: PredictionWorker and
   PredictionController.  A worker's run() executes on its own thread, one
   stage per step; the signals it emits are delivered to the controller's
   slots through the UI thread's event queue, in the order of emission. *)

\* what a worker emits or does: a signal with its argument, or the start of a stage
Ev(sig, val) == [sig |-> sig, val |-> val]
Progress(n) == Ev("progress_update", <<n>>)
Error(where) == Ev("prediction_error", <<where>>)
Result(r) == Ev("prediction_result", <<r>>)
Stage(name) == Ev("stage", <<name>>)

\* run() repeating 30 after the model was loaded
ProgressAfter_Repeated(stage) ==
    CASE stage = "run" -> 5
      [] stage = "prepare" -> 30
      [] stage = "load_model" -> 30
      [] stage = "predict" -> 80
      [] stage = "process" -> 100

\* the values of progress_update.emit(...) in run(), by the stage they follow
ProgressAfter(stage) ==
    CASE stage = "run" -> 5
      [] stage = "prepare" -> 30
      [] stage = "load_model" -> 50
      [] stage = "predict" -> 80
      [] stage = "process" -> 100

IsSignal(e) == e.sig # "stage"

\* the events among evs that are signals, as queued for the UI thread
Queued(w, evs) ==
    LET sigs == SelectSeq(evs, IsSignal)
    IN  [k \in 1..Len(sigs) |-> [w |-> w, sig |-> sigs[k].sig, val |-> sigs[k].val]]

\* PredictionWorker(case_data, model_path) after start()
NewWorker(ref, path) ==
    [case_data |-> ref, model_path |-> path, pc |-> "run", running |-> TRUE,
     prediction_result |-> "unset", final_results |-> <<>>,
     log |-> <<>>, delivered |-> <<>>]

\* worker w goes on to pc, having done and emitted evs
WorkerDoes(w, pc, evs) ==
    /\ workers' = [workers EXCEPT ![w].pc = pc,
                                  ![w].running = (pc # "finished"),
                                  ![w].log = @ \o evs]
    /\ ui_queue' = ui_queue \o Queued(w, evs)

\* a step of a worker thread leaves the UI thread's objects alone
WorkerThread ==
    UNCHANGED <<caseVars, postVars, fileVars, winVars, last_results, model_path,
                torch_available, model_files>>

\* run(), lines 64-76: the dependency check and the first progress value.
\* The check of case_data (lines 71-73) cannot fail: start_prediction lets in
\* only a dict with 'files', and no code removes that key.
WorkerRun(w) ==
    /\ workers[w].pc = "run"
    /\ IF ~ torch_available \/ "SimpleITK" \notin installed
       THEN WorkerDoes(w, "finished", <<Error("run: dependencies")>>)
       ELSE WorkerDoes(w, "prepare", <<Progress(ProgressAfter("run"))>>)
    /\ WorkerThread

\* the paths _prepare_data finds for a sequence type (the last one wins)
SequenceFiles(files, sequence_type) ==
    {files[k].path : k \in {j \in 1..Len(files) : files[j].sequence_type = sequence_type}}

\* what can happen in _prepare_data once both files are found
PrepareOutcomes(t2w, adc) ==
    IF \A p \in t2w \cup adc : "SimpleITK" \in FileSystem[p].reads
    THEN {"ok", "size mismatch", "exception"}
    ELSE {"exception"}

\* run(), lines 78-85, with _prepare_data: it reads the file list of the case
\* dict it was given, as the list is at this moment
WorkerPrepareData(w, outcome) ==
    /\ workers[w].pc = "prepare"
    /\ LET files == Deref(workers[w].case_data).files
           t2w == SequenceFiles(files, "t2w")
           adc == SequenceFiles(files, "adc")
       IN  IF t2w = {} \/ adc = {}
           THEN WorkerDoes(w, "finished",
                           <<Stage("prepare"), Error("_prepare_data: sequences"),
                             Error("run: prepare")>>)
           ELSE /\ outcome \in PrepareOutcomes(t2w, adc)
                /\ IF outcome = "ok"
                   THEN WorkerDoes(w, "load_model",
                                   <<Stage("prepare"),
                                     Progress(ProgressAfter("prepare"))>>)
                   ELSE WorkerDoes(w, "finished",
                                   <<Stage("prepare"), Error(<<"_prepare_data", outcome>>),
                                     Error("run: prepare")>>)
    /\ WorkerThread

\* run(), lines 87-94, with _load_model
WorkerLoadModel(w, outcome) ==
    /\ workers[w].pc = "load_model"
    /\ IF workers[w].model_path \notin model_files \/ outcome = "exception"
       THEN WorkerDoes(w, "finished",
                       <<Stage("load_model"), Error("_load_model"),
                         Error("run: load_model")>>)
       ELSE WorkerDoes(w, "predict",
                       <<Stage("load_model"), Progress(ProgressAfter("load_model"))>>)
    /\ WorkerThread

\* run(), lines 96-100, with _perform_prediction: its None is not looked at
WorkerPerformPrediction(w, outcome) ==
    /\ workers[w].pc = "predict"
    /\ IF outcome = "exception"
       THEN /\ workers' = [workers EXCEPT
                   ![w].pc = "process",
                   ![w].prediction_result = "None",
                   ![w].log = @ \o <<Stage("predict"), Error("_perform_prediction"),
                                     Progress(ProgressAfter("predict"))>>]
            /\ ui_queue' = ui_queue \o
                   Queued(w, <<Error("_perform_prediction"),
                               Progress(ProgressAfter("predict"))>>)
       ELSE /\ workers' = [workers EXCEPT
                   ![w].pc = "process",
                   ![w].prediction_result = "dict",
                   ![w].log = @ \o <<Stage("predict"),
                                     Progress(ProgressAfter("predict"))>>]
            /\ ui_queue' = ui_queue \o
                   Queued(w, <<Progress(ProgressAfter("predict"))>>)
    /\ WorkerThread

\* _process_results returning what it had built when it fails
WorkerProcessResults_Partial(w, outcome) ==
    /\ workers[w].pc = "process"
    /\ IF workers[w].prediction_result = "None"
       THEN /\ workers' = [workers EXCEPT
                   ![w].pc = "emit",
                   ![w].final_results = <<>>,
                   ![w].log = @ \o <<Stage("process"), Error("_process_results"),
                                     Progress(ProgressAfter("process"))>>]
            /\ ui_queue' = ui_queue \o
                   Queued(w, <<Error("_process_results"),
                               Progress(ProgressAfter("process"))>>)
       ELSE /\ workers' = [workers EXCEPT
                   ![w].pc = "emit",
                   ![w].final_results = <<ProcessResults(SampleVolume, 250, clock)>>,
                   ![w].log = @ \o (IF outcome = "exception"
                                     THEN <<Stage("process"), Error("_process_results"),
                                            Progress(ProgressAfter("process"))>>
                                     ELSE <<Stage("process"),
                                            Progress(ProgressAfter("process"))>>)]
            /\ ui_queue' = ui_queue \o
                   Queued(w, IF outcome = "exception"
                             THEN <<Error("_process_results"),
                                    Progress(ProgressAfter("process"))>>
                             ELSE <<Progress(ProgressAfter("process"))>>)
    /\ WorkerThread

\* run(), lines 102-106, with _process_results: indexing None raises inside
\* its try, and its None is not looked at either
WorkerProcessResults(w, outcome) ==
    /\ workers[w].pc = "process"
    /\ IF workers[w].prediction_result = "None" \/ outcome = "exception"
       THEN /\ workers' = [workers EXCEPT
                   ![w].pc = "emit",
                   ![w].final_results = <<>>,
                   ![w].log = @ \o <<Stage("process"), Error("_process_results"),
                                     Progress(ProgressAfter("process"))>>]
            /\ ui_queue' = ui_queue \o
                   Queued(w, <<Error("_process_results"),
                               Progress(ProgressAfter("process"))>>)
       ELSE /\ workers' = [workers EXCEPT
                   ![w].pc = "emit",
                   ![w].final_results = <<ProcessResults(SampleVolume, 250, clock)>>,
                   ![w].log = @ \o <<Stage("process"),
                                     Progress(ProgressAfter("process"))>>]
            /\ ui_queue' = ui_queue \o
                   Queued(w, <<Progress(ProgressAfter("process"))>>)
    /\ WorkerThread

\* run(), lines 108-112: prediction_result is pyqtSignal(dict), so emit(None)
\* raises TypeError, which the except clause reports
WorkerEmitResult(w) ==
    /\ workers[w].pc = "emit"
    /\ IF workers[w].final_results = <<>>
       THEN WorkerDoes(w, "finished", <<Error("run: except")>>)
       ELSE WorkerDoes(w, "finished", <<Result(workers[w].final_results[1])>>)
    /\ WorkerThread

\* PredictionController.worker is running
WorkerIsRunning == workers # <<>> /\ Last(workers).running

\* MainWindow.on_prediction_started(), run inside start_prediction's emit
OnPredictionStarted ==
    /\ predict_enabled' = FALSE
    /\ UNCHANGED <<report_enabled, viewer>>

\* a call of the controller on the UI thread
ControllerCall(result, emitted) ==
    /\ calls < MaxCalls
    /\ calls' = calls + 1
    /\ lastCall' = Call("start_prediction", <<>>, NoPath, result, emitted)
    /\ IF "prediction_started" \in Range(emitted)
       THEN OnPredictionStarted
       ELSE UNCHANGED winVars
    /\ UNCHANGED <<cases, current_case_index, disk, clock, installed, postVars,
                   fileVars, last_results, ui_queue, torch_available, model_files>>

\* start_prediction without the check of self.worker.isRunning()
StartPrediction_NoRunningCheck ==
    IF ~ torch_available \/ get_current_case = <<>>
    THEN /\ ControllerCall("ValueError", <<>>)
         /\ UNCHANGED <<workers, model_path>>
    ELSE LET path == IF model_path \in model_files THEN model_path
                     ELSE "sample_model.pth"
         IN  /\ model_path' = path
             /\ IF path \notin model_files
                THEN /\ ControllerCall("ValueError", <<>>)
                     /\ UNCHANGED workers
                ELSE /\ Len(workers) < MaxRuns
                     /\ ControllerCall("ok", <<"prediction_started">>)
                     /\ workers' = Append(workers,
                            NewWorker(Listed(current_case_index + 1), path))

\* start_prediction(self.case_manager.get_current_case()), main_window.py 452
StartPrediction ==
    IF ~ torch_available \/ get_current_case = <<>> \/ WorkerIsRunning
    THEN /\ ControllerCall("ValueError", <<>>)
         /\ UNCHANGED <<workers, model_path>>
    ELSE LET path == IF model_path \in model_files THEN model_path
                     ELSE "sample_model.pth"
         IN  /\ model_path' = path
             /\ IF path \notin model_files
                THEN /\ ControllerCall("ValueError", <<>>)
                     /\ UNCHANGED workers
                ELSE /\ Len(workers) < MaxRuns
                     /\ ControllerCall("ok", <<"prediction_started">>)
                     /\ workers' = Append(workers,
                            NewWorker(Listed(current_case_index + 1), path))

\* the slot of MainWindow connected to a signal of the controller:
\* on_prediction_completed (with ViewerWidget.show_prediction_results),
\* on_prediction_failed, and none for prediction_progress
MainWindowSlot(signal) ==
    CASE signal = "prediction_completed" ->
            /\ predict_enabled' = TRUE
            /\ report_enabled' = TRUE
            /\ viewer' = [viewer EXCEPT !.overlay = TRUE]
      [] signal = "prediction_failed" ->
            /\ predict_enabled' = TRUE
            /\ UNCHANGED <<report_enabled, viewer>>
      [] OTHER -> UNCHANGED winVars

\* the UI thread takes the next queued signal and runs the slot connected to it
SlotRuns(sig, emitted) ==
    /\ ui_queue # <<>>
    /\ Head(ui_queue).sig = sig
    /\ ui_queue' = Tail(ui_queue)
    /\ workers' = [workers EXCEPT ![Head(ui_queue).w].delivered =
                       Append(@, Ev(emitted, Head(ui_queue).val))]
    /\ MainWindowSlot(emitted)
    /\ UNCHANGED <<caseVars, postVars, fileVars, model_path, torch_available, model_files>>

\* on_prediction_completed(results); MainWindow.on_prediction_completed, the
\* slot of prediction_completed, changes widgets only
OnPredictionCompleted ==
    /\ SlotRuns("prediction_result", "prediction_completed")
    /\ last_results' = Head(ui_queue).val

\* on_prediction_failed(error_message)
OnPredictionFailed ==
    /\ SlotRuns("prediction_error", "prediction_failed")
    /\ UNCHANGED last_results

\* progress_update is connected to the signal prediction_progress
OnProgressUpdate ==
    /\ SlotRuns("progress_update", "prediction_progress")
    /\ UNCHANGED last_results

\* the worker whose results are in last_results: the last one whose
\* prediction_result reached on_prediction_completed
LastResultsWorker ==
    LET done == {w \in DOMAIN workers :
                    \E i \in 1..Len(workers[w].delivered) :
                        workers[w].delivered[i].sig = "prediction_completed"}
    IN  CHOOSE w \in done : \A x \in done : x <= w

\* MainWindow.on_report_clicked(), triggered by a report action that is
\* enabled; the dialog is modal and closed again before the next event
OnReportClicked ==
    /\ report_enabled
    /\ calls < MaxCalls
    /\ calls' = calls + 1
    /\ lastCall' = Call("on_report_clicked", <<>>, NoPath,
                        IF last_results = <<>> THEN "warning" ELSE "ReportDialog",
                        <<>>)
    /\ UNCHANGED <<cases, current_case_index, disk, clock, installed, postVars,
                   fileVars, winVars, predVars>>

\* the application starts on some machine
InitPred ==
    /\ cases = <<>>
    /\ current_case_index = -1
    /\ disk = [p \in DiskPaths |-> NoFile]
    /\ clock = 0
    /\ calls = 0
    /\ installed \in {Backends, Backends \ {"SimpleITK"}}
    /\ lastCall = Call("init", <<>>, NoPath, "None", <<>>)
    /\ lesion_probability = SampleVolume
    /\ voxel_volume = 250
    /\ post_pc = "idle"
    /\ results = <<>>
    /\ label_masks = <<>>
    /\ NoFileGiven
    /\ NoWindow
    /\ workers = <<>>
    /\ last_results = <<>>
    /\ model_path = "prostate_segmentation_model.pth"
    /\ ui_queue = <<>>
    /\ torch_available \in BOOLEAN
    /\ model_files \in {{"prostate_segmentation_model.pth"}, {"sample_model.pth"}, {}}

\* the cases a user opens while predicting
PredPathLists == {<<"study1/T2.nii", "study1/adc.nii">>, <<"study1/T2.nii">>}

StageOutcomes == {"ok", "size mismatch", "exception"}

NextPred ==
    \/ \E file_paths \in PredPathLists : LoadCase(file_paths)
    \/ CloseCurrentCase
    \/ AddFileToCurrentCase("study1/adc.nii")
    \/ RemoveFileFromCurrentCase(0)
    \/ SaveCurrentCase(<<"out">>)
    \/ StartPrediction
    \/ \E w \in DOMAIN workers : WorkerRun(w)
    \/ \E w \in DOMAIN workers, o \in StageOutcomes : WorkerPrepareData(w, o)
    \/ \E w \in DOMAIN workers, o \in {"ok", "exception"} : WorkerLoadModel(w, o)
    \/ \E w \in DOMAIN workers, o \in {"ok", "exception"} : WorkerPerformPrediction(w, o)
    \/ \E w \in DOMAIN workers, o \in {"ok", "exception"} : WorkerProcessResults(w, o)
    \/ \E w \in DOMAIN workers : WorkerEmitResult(w)
    \/ OnPredictionCompleted
    \/ OnPredictionFailed
    \/ OnProgressUpdate
    \/ OnReportClicked

SpecPred == InitPred /\ [][NextPred]_vars

---------------------------------------------------------------------------
(* _process_file on one file, for every small file: its name, its extension,
   the backends that read it and the backends installed *)

\* the words file names are made of
NameTokens ==
    {<<"T", "2">>, <<"a", "d", "c">>, <<"d", "w", "i">>, <<"h", "b", "v">>,
     <<"C", "o", "r">>, <<"s", "a", "g">>, <<"x">>}

ExtChars(ext) ==
    CASE ext = ".nii" -> <<".", "n", "i", "i">>
      [] ext = ".nii.gz" -> <<".", "n", "i", "i", ".", "g", "z">>
      [] ext = ".mgz" -> <<".", "m", "g", "z">>

FileExts == {".nii", ".nii.gz", ".mgz"}

RECURSIVE Flatten(_)
Flatten(words) ==
    IF words = <<>> THEN <<>> ELSE Head(words) \o Flatten(Tail(words))

\* the stems: one to MaxTokens words
FileStems ==
    UNION {{Flatten(ws) : ws \in [1..n -> NameTokens]} : n \in 1..MaxTokens}

\* a file of the file system, described as the entries of FileSystem are
GivenFile(exists, stem, ext, reads) ==
    [exists |-> exists, dir |-> "", stem |-> "given", ext |-> ext,
     name |-> stem \o ExtChars(ext), reads |-> reads, tags |-> {}]

GivenPath == "given"

\* _process_file, line 152: file_info = load_medical_image(file_path)
FileLoad ==
    /\ file_pc = "given"
    /\ image_info' = LoadImage(GivenPath, image_file)
    /\ file_pc' = IF image_info' = <<>> THEN "ValueError" ELSE "loaded"
    /\ UNCHANGED <<image_file, caseVars, postVars, predVars, winVars>>

\* _process_file, lines 157-173: the sequence type
FileSequenceType ==
    /\ file_pc = "loaded"
    /\ image_info' = <<[image_info[1] EXCEPT
                          !.sequence_type = InferSequenceType(image_file.name)]>>
    /\ file_pc' = "done"
    /\ UNCHANGED <<image_file, caseVars, postVars, predVars, winVars>>

InitFile ==
    /\ cases = <<>>
    /\ current_case_index = -1
    /\ disk = [p \in DiskPaths |-> NoFile]
    /\ clock = 0
    /\ calls = 0
    /\ installed \in SUBSET Backends
    /\ lastCall = Call("init", <<>>, NoPath, "None", <<>>)
    /\ lesion_probability = SampleVolume
    /\ voxel_volume = 250
    /\ post_pc = "idle"
    /\ results = <<>>
    /\ label_masks = <<>>
    /\ NoPrediction
    /\ \E exists \in BOOLEAN, stem \in FileStems, ext \in FileExts,
          reads \in SUBSET Backends :
          image_file = GivenFile(exists, stem, ext, reads)
    /\ image_info = <<>>
    /\ file_pc = "given"
    /\ NoWindow

NextFile == FileLoad \/ FileSequenceType

SpecFile == InitFile /\ [][NextFile]_vars

---------------------------------------------------------------------------
(* load_case_from_file on files that save_current_case did not write *)

\* a case document lacking 'metadata'
DocWithoutMetadata == [id |-> CaseId(0), name |-> <<"Caso", "T2">>, files |-> <<>>]

\* what the file "out" can hold when the application starts: nothing
\* readable, text that is not JSON, a JSON array naming the four keys, a JSON
\* array that does not, a dict lacking a key, a case saved earlier
FilesFound ==
    {NoFile, Corrupt,
     <<"case", JsonList(<<"id", "name", "files", "metadata">>)>>,
     <<"case", JsonList(<<"id", "name">>)>>,
     <<"case", DocWithoutMetadata>>,
     <<"case", JsonCase(NewCase(<<"study1/T2.nii">>,
                                StripArrays(ProcessedFiles(<<"study1/T2.nii">>)), 0))>>}

InitLoad ==
    /\ cases = <<>>
    /\ current_case_index = -1
    /\ installed = Backends
    /\ \E found \in FilesFound :
          disk = [p \in DiskPaths |-> IF p = <<"out">> THEN found ELSE NoFile]
    /\ clock = 0
    /\ calls = 0
    /\ lastCall = Call("init", <<>>, NoPath, "None", <<>>)
    /\ lesion_probability = SampleVolume
    /\ voxel_volume = 250
    /\ post_pc = "idle"
    /\ results = <<>>
    /\ label_masks = <<>>
    /\ NoFileGiven
    /\ NoWindow
    /\ NoPrediction

\* the calls that do not look into the current case
NextLoad ==
    \/ \E f \in {<<"out">>, <<"nodir">>} : LoadCaseFromFile(f)
    \/ \E file_paths \in PathLists : LoadCase(file_paths)
    \/ CloseCurrentCase
    \/ CloseAllCases
    \/ Tick

SpecLoad == InitLoad /\ [][NextLoad]_vars

---------------------------------------------------------------------------
(* Properties of the Case Manager, checked under Spec *)

\* C1: after any sequence of Case Manager calls there is at most one current
\* case: current_case_index is -1 exactly when no case is open, and otherwise
\* 0 <= current_case_index < len(cases).
C1_OneCurrentCase ==
    /\ current_case_index = -1 <=> cases = <<>>
    /\ cases # <<>> => 0 <= current_case_index /\ current_case_index < Len(cases)

\* the last of two open cases was closed and the index moved back to the first
C1_Witness ==
    /\ lastCall.op = "close_current_case"
    /\ lastCall.emitted = <<"case_closed">>
    /\ Len(cases) = 1
    /\ current_case_index = 0

\* a file parses when load_medical_image finds it
C2_Parses(p) == FileSystem[p].exists

\* C2: load_case on a path list in which at least one file parses succeeds: it
\* appends exactly one case (the earlier cases keep their position), the new
\* case's files are the records of the files that parsed, in input order, the
\* new case becomes current and case_loaded is emitted exactly once.
C2_LoadCaseAppendsOne ==
    [][(/\ lastCall'.op = "load_case"
        /\ \E k \in 1..Len(lastCall'.paths) : C2_Parses(lastCall'.paths[k]))
       => LET parsed == SelectSeq(lastCall'.paths, C2_Parses)
              new == cases'[Len(cases')]
          IN  /\ lastCall'.result = "ok"
              /\ Len(cases') = Len(cases) + 1
              /\ SubSeq(cases', 1, Len(cases)) = cases
              /\ Len(new.files) = Len(parsed)
              /\ \A k \in 1..Len(parsed) :
                    /\ new.files[k].path = parsed[k]
                    /\ <<new.files[k]>> = ProcessFile(parsed[k])
              /\ current_case_index' = Len(cases') - 1
              /\ get_current_case' = <<new>>
              /\ lastCall'.emitted = <<"case_loaded">>]_vars

\* a second case was loaded from a list whose first file is missing
C2_Witness ==
    /\ lastCall.op = "load_case"
    /\ lastCall.result = "ok"
    /\ lastCall.paths = <<"study1/gone.nii", "study1/T2.nii">>
    /\ Len(cases) = 2
    /\ current_case_index = 1
    /\ Len(cases[2].files) = 1

\* C3: load_case raises ValueError when the path list is empty or every file
\* in it fails to parse; the case list and current_case_index are then as
\* before the call and case_loaded is not emitted.
C3_LoadCaseFailsCleanly ==
    [][(/\ lastCall'.op = "load_case"
        /\ \A k \in 1..Len(lastCall'.paths) : ~ C2_Parses(lastCall'.paths[k]))
       => /\ lastCall'.result = "ValueError"
          /\ cases' = cases
          /\ current_case_index' = current_case_index
          /\ lastCall'.emitted = <<>>]_vars

\* load_case failed on a list of missing files while a case was open
C3_Witness ==
    /\ lastCall.op = "load_case"
    /\ lastCall.result = "ValueError"
    /\ lastCall.paths = <<"study1/gone.nii">>
    /\ Len(cases) = 1
    /\ current_case_index = 0

\* C4: when exactly one case is open, close_current_case removes it and
\* resets the index to 'no case': current_case_index = -1, get_current_case()
\* is None, has_open_cases() is False, and case_closed was emitted once.
C4_CloseOnlyCase ==
    [][(Len(cases) = 1 /\ lastCall'.op = "close_current_case")
       => /\ cases' = <<>>
          /\ current_case_index' = -1
          /\ get_current_case' = <<>>
          /\ ~ has_open_cases'
          /\ lastCall'.emitted = <<"case_closed">>]_vars

\* the only open case was closed
C4_Witness ==
    /\ lastCall.op = "close_current_case"
    /\ lastCall.emitted = <<"case_closed">>
    /\ cases = <<>>
    /\ current_case_index = -1
    /\ get_current_case = <<>>

\* the fields of a file record the round trip is to preserve
C5_FileFields(f) == <<f.path, f.format, f.loaded_with, f.sequence_type, f.metadata>>

\* C5: round trip: save_current_case(path) followed by load_case_from_file(path)
\* yields a case whose id, name, metadata and per-file records (path, format,
\* loaded_with, sequence_type, metadata) are those of the saved case, and in
\* which no file record carries an array payload.
C5_RoundTrip ==
    [][(/\ lastCall.op = "save_current_case"
        /\ lastCall.result = "True"
        /\ lastCall'.op = "load_case_from_file"
        /\ lastCall'.path = lastCall.path)
       => LET saved == cases[current_case_index + 1]
              loaded == cases'[Len(cases')]
          IN  /\ lastCall'.result = "ok"
              /\ loaded.id = saved.id
              /\ loaded.name = saved.name
              /\ loaded.metadata = saved.metadata
              /\ Len(loaded.files) = Len(saved.files)
              /\ \A k \in 1..Len(saved.files) :
                    /\ C5_FileFields(loaded.files[k]) = C5_FileFields(saved.files[k])
                    /\ loaded.files[k].array \in {"absent", "None"}]_vars

---------------------------------------------------------------------------
(* Properties of the post-processing pipeline, checked under SpecPost *)

\* the lesions of the finished run
C6_Lesions == IF post_pc = "done" THEN Range(results[1].lesions) ELSE {}

\* C6: a lesion's severity is a function of (volume_mm3, probability) alone:
\* "Alta" iff volume > 500 and probability > 0.75; otherwise "Media" iff
\* volume > 200 or probability > 0.6; otherwise "Baja".  The comparisons are
\* strict: volume = 200 with probability = 0.6 is "Baja".
C6_SeverityFunction ==
    \A l \in C6_Lesions :
        LET alta == l.volume_mm3 > 500 /\ l.probability > Pct(75)
            media == l.volume_mm3 > 200 \/ l.probability > Pct(60)
        IN  /\ l.severity \in {"Alta", "Media", "Baja"}
            /\ l.severity = "Alta" <=> alta
            /\ l.severity = "Media" <=> ~ alta /\ media
            /\ l.severity = "Baja" <=> ~ alta /\ ~ media
            /\ (l.volume_mm3 = 200 /\ l.probability = Pct(60)) => l.severity = "Baja"

\* a lesion exactly on both Media thresholds, next to one above them
C6_Witness ==
    /\ \E l \in C6_Lesions :
          l.volume_mm3 = 200 /\ l.probability = Pct(60) /\ l.severity = "Baja"
    /\ \E l \in C6_Lesions : l.severity = "Media"

RECURSIVE C7_Sum(_, _)
C7_Sum(lesions, k) ==
    IF k = 0 THEN 0 ELSE lesions[k].volume_mm3 + C7_Sum(lesions, k - 1)

\* C7: in a prediction result num_lesions is the number of lesion entries,
\* has_significant_lesion is true iff some lesion has severity "Alta", and
\* total_lesion_volume is the sum of the lesions' volume_mm3.
C7_Aggregates ==
    post_pc = "done" =>
        LET r == results[1]
        IN  /\ r.num_lesions = Len(r.lesions)
            /\ r.has_significant_lesion <=>
                  \E k \in 1..Len(r.lesions) : r.lesions[k].severity = "Alta"
            /\ r.total_lesion_volume = C7_Sum(r.lesions, Len(r.lesions))

\* two lesions, the larger one significant
C7_Witness ==
    /\ post_pc = "done"
    /\ results[1].num_lesions = 2
    /\ results[1].has_significant_lesion
    /\ results[1].lesions[2].severity # "Alta"
    /\ results[1].total_lesion_volume = 1000

\* C8: binarization is strict: a voxel is in the lesion mask iff its lesion
\* probability is greater than MODEL_THRESHOLD (0.5); a voxel at exactly the
\* threshold is excluded.
C8_StrictThreshold ==
    post_pc = "done" =>
        \A v \in Voxels :
            v \in results[1].segmentation.mask <=> lesion_probability[v] > Pct(50)

\* a voxel exactly at the threshold is left out while another one is taken
C8_Witness ==
    /\ post_pc = "done"
    /\ \E v \in Voxels :
          lesion_probability[v] = Pct(50) /\ v \notin results[1].segmentation.mask
    /\ results[1].segmentation.mask # {}

\* some voxel of A shares a face with some voxel of B
C9_Touch(A, B) ==
    \E a \in A, b \in B :
        \E k \in 1..3 :
            /\ a[k] - b[k] \in {-1, 1}
            /\ \A j \in (1..3) \ {k} : a[j] = b[j]

\* S is one blob: it cannot be split into two parts that do not touch
C9_IsBlob(S) ==
    /\ S # {}
    /\ \A T \in SUBSET S : (T # {} /\ T # S) => C9_Touch(T, S \ T)

\* C9: connected-component labelling partitions the above-threshold voxels:
\* every such voxel is in exactly one lesion's mask, the masks of distinct
\* lesions are disjoint, and two spatially disjoint above-threshold blobs give
\* exactly two lesion entries.
C9_Partition ==
    post_pc = "done" =>
        LET above == {v \in Voxels : lesion_probability[v] > Pct(50)}
            lesions == results[1].lesions
            ids == {lesions[k].id : k \in 1..Len(lesions)}
        IN  /\ Cardinality(ids) = Len(lesions)
            /\ ids = DOMAIN label_masks
            /\ \A v \in above : Cardinality({i \in ids : v \in label_masks[i]}) = 1
            /\ \A i \in ids : label_masks[i] \subseteq above
            /\ \A i, j \in ids : i # j => label_masks[i] \cap label_masks[j] = {}
            /\ \A A \in SUBSET above :
                  (/\ ~ C9_Touch(A, above \ A)
                   /\ C9_IsBlob(A)
                   /\ C9_IsBlob(above \ A))
                  => /\ Len(lesions) = 2
                     /\ {label_masks[i] : i \in ids} = {A, above \ A}

\* two blobs that meet only at an edge were labelled as two lesions
C9_Witness ==
    /\ post_pc = "done"
    /\ Len(results[1].lesions) = 2
    /\ label_masks = <<{<<1, 1, 1>>}, {<<2, 2, 1>>, <<3, 2, 1>>}>>

\* C10: the lesions list is sorted by volume_mm3 in non-increasing order, and
\* lesions of equal volume keep the order of their labels.
C10_SortedByVolume ==
    post_pc = "done" =>
        LET lesions == results[1].lesions
        IN  \A i, j \in 1..Len(lesions) :
                i < j => /\ lesions[i].volume_mm3 >= lesions[j].volume_mm3
                         /\ lesions[i].volume_mm3 = lesions[j].volume_mm3
                               => lesions[i].id < lesions[j].id

\* three lesions of one volume, in label order
C10_Witness ==
    /\ post_pc = "done"
    /\ Len(results[1].lesions) = 3
    /\ \A k \in 1..3 : results[1].lesions[k].id = k
    /\ \A k \in 1..3 : results[1].lesions[k].volume_mm3 = results[1].lesions[1].volume_mm3

---------------------------------------------------------------------------
(* Properties of the prediction controller and its worker, checked under
   SpecPred *)

\* the step is a call of start_prediction
C11_StartCalled == lastCall'.op = "start_prediction" /\ calls' = calls + 1

\* C11: at most one prediction worker is running at any time.  A call of
\* start_prediction made while the controller's worker is running raises
\* ValueError, creates no worker and emits no prediction_started; the rejected
\* request is not queued: workers come only from accepted calls, and a worker
\* that is not running never runs again.
C11_OneWorkerRunning ==
    /\ [](Cardinality({w \in DOMAIN workers : workers[w].running}) <= 1)
    /\ [][/\ (C11_StartCalled /\ WorkerIsRunning)
              => /\ lastCall'.result = "ValueError"
                 /\ lastCall'.emitted = <<>>
                 /\ workers' = workers
                 /\ ui_queue' = ui_queue
          /\ Len(workers') # Len(workers)
              => /\ C11_StartCalled
                 /\ lastCall'.result = "ok"
                 /\ ~ WorkerIsRunning
                 /\ Len(workers') = Len(workers) + 1
          /\ \A w \in DOMAIN workers :
                ~ workers[w].running => ~ workers'[w].running]_vars

\* start_prediction was refused for the worker that is still running
C11_Witness ==
    /\ lastCall.op = "start_prediction"
    /\ lastCall.result = "ValueError"
    /\ torch_available
    /\ cases # <<>>
    /\ Len(workers) = 1
    /\ workers[1].running

\* the progress values in a worker's log, in the order of emission
C12_ProgressValues(log) ==
    LET ks == SelectSeq(log, LAMBDA e : e.sig = "progress_update")
    IN  [k \in 1..Len(ks) |-> ks[k].val[1]]

\* C12: within one run of PredictionWorker the progress values emitted are,
\* in order, a prefix of 5, 30, 50, 80, 100: none is repeated, skipped or
\* emitted out of order.
C12_LinearProgress ==
    \A w \in DOMAIN workers :
        LET values == C12_ProgressValues(workers[w].log)
        IN  /\ Len(values) <= 5
            /\ values = SubSeq(<<5, 30, 50, 80, 100>>, 1, Len(values))

\* a run that went through every stage, and one that stopped after the first
C12_Witness ==
    /\ Len(workers) = 2
    /\ workers[1].pc = "finished"
    /\ C12_ProgressValues(workers[1].log) = <<5, 30, 50, 80, 100>>
    /\ workers[2].pc = "finished"
    /\ C12_ProgressValues(workers[2].log) = <<5>>

\* the stage in which the event at position i of a log happened
C13_StageAt(log, i) ==
    LET ks == {k \in 1..i : log[k].sig = "stage"}
    IN  IF ks = {} THEN "run"
        ELSE log[CHOOSE k \in ks : \A j \in ks : j <= k].val[1]

\* C13: if data preparation, model loading or inference fails during a run,
\* the prediction is aborted at that stage: no later stage is executed and no
\* further progress value is emitted after the failure.
C13_AbortsAtFailure ==
    \A w \in DOMAIN workers :
        LET log == workers[w].log
        IN  \A i \in 1..Len(log) :
                (/\ log[i].sig = "prediction_error"
                 /\ C13_StageAt(log, i) \in {"prepare", "load_model", "predict"})
                => \A j \in (i + 1)..Len(log) :
                       log[j].sig \notin {"stage", "progress_update"}

\* the number of events of a kind in a sequence of events
C14_Count(events, sig) == Cardinality({i \in 1..Len(events) : events[i].sig = sig})

\* C14: a failed run is surfaced as a single error string: in every run that
\* fails prediction_error is emitted exactly once, and the controller emits
\* prediction_failed exactly once for it.
C14_SingleError ==
    \A w \in DOMAIN workers :
        /\ C14_Count(workers[w].log, "prediction_error") <= 1
        /\ C14_Count(workers[w].delivered, "prediction_failed") <= 1
        /\ (/\ workers[w].pc = "finished"
            /\ C14_Count(workers[w].log, "prediction_result") = 0)
           => C14_Count(workers[w].log, "prediction_error") = 1

\* the run of worker w failed: it emitted prediction_error
C15_Failed(w) == C14_Count(workers[w].log, "prediction_error") > 0

\* C15: no partial results: a run that emitted prediction_error never
\* delivers prediction_result, on_prediction_completed is not invoked for it,
\* and last_results is replaced only by the result of a run that did not fail.
C15_NoPartialResults ==
    /\ [](\A w \in DOMAIN workers :
             C15_Failed(w)
             => /\ C14_Count(workers[w].log, "prediction_result") = 0
                /\ C14_Count(workers[w].delivered, "prediction_completed") = 0)
    /\ [][last_results' # last_results
          => /\ ui_queue # <<>>
             /\ Head(ui_queue).sig = "prediction_result"
             /\ ~ C15_Failed(Head(ui_queue).w)
             /\ last_results' = workers[Head(ui_queue).w].final_results]_vars

\* the second run failed in post-processing and the first run's results stay
C15_Witness ==
    /\ Len(workers) = 2
    /\ C14_Count(workers[1].delivered, "prediction_completed") = 1
    /\ workers[2].pc = "finished"
    /\ C14_Count(workers[2].log, "prediction_error") = 2
    /\ C14_Count(workers[2].log, "progress_update") = 5
    /\ ui_queue = <<>>
    /\ last_results = workers[1].final_results

\* what _prepare_data reads of a case: each file's path and sequence type
C16_Read(case) ==
    [k \in 1..Len(case.files) |-> <<case.files[k].path, case.files[k].sequence_type>>]

\* C16: the worker and the UI thread share no mutable state: while a worker
\* is running, a Case Manager call made on the UI thread (add_file_to_current_case,
\* remove_file_from_current_case, update_current_case_metadata,
\* save_current_case) changes nothing of what the worker reads of the case
\* it was handed.
C16_NoSharedState ==
    [][\A w \in DOMAIN workers :
          (/\ workers[w].running
           /\ calls' = calls + 1
           /\ lastCall'.op \in {"add_file_to_current_case",
                                "remove_file_from_current_case",
                                "update_current_case_metadata",
                                "save_current_case"})
          => C16_Read(DerefIn(cases', workers'[w].case_data))
                = C16_Read(Deref(workers[w].case_data))]_vars

\* C17: when the result of a successful run started on case C is handed
\* over, it becomes C's prediction results in the Case Manager, whichever
\* case is current at that moment.
C17_ResultsAttached ==
    [][(/\ ui_queue # <<>>
        /\ Head(ui_queue).sig = "prediction_result"
        /\ ui_queue' = Tail(ui_queue))
       => DerefIn(cases', workers'[Head(ui_queue).w].case_data).prediction_results
             = Head(ui_queue).val]_vars

---------------------------------------------------------------------------
(* Properties of _process_file and load_medical_image, checked under SpecFile *)

\* the first backend, in the order SimpleITK, nibabel, VTK, that is installed
\* and reads file f without error; 'basic_info' when there is none
C18_FirstThatReads(f) ==
    IF "SimpleITK" \in installed /\ "SimpleITK" \in f.reads THEN "SimpleITK"
    ELSE IF "nibabel" \in installed /\ "nibabel" \in f.reads THEN "nibabel"
    ELSE IF "vtk" \in installed /\ "vtk" \in f.reads THEN "VTK"
    ELSE "basic_info"

\* C18: load_medical_image on an existing file returns a record whose
\* loaded_with is the first backend, in the order SimpleITK, nibabel, VTK,
\* that is installed and reads the file without error, and 'basic_info' (array
\* None, metadata only file size and modification time) when none does; it
\* returns None only when the file does not exist.
C18_FirstBackend ==
    /\ file_pc = "ValueError" => ~ image_file.exists
    /\ file_pc \in {"loaded", "done"}
       => /\ image_file.exists
          /\ image_info[1].loaded_with = C18_FirstThatReads(image_file)
          /\ image_info[1].loaded_with = "basic_info"
             => /\ image_info[1].array = "None"
                /\ {kv[1] : kv \in image_info[1].metadata}
                      = {"file_size", "last_modified"}

\* the rules of the sequence type, in the order they are tried
C19_Rules ==
    <<[has |-> {<<"t", "2">>}, type |-> "t2w"],
      [has |-> {<<"a", "d", "c">>}, type |-> "adc"],
      [has |-> {<<"d", "w", "i">>, <<"h", "b", "v">>}, type |-> "dwi"],
      [has |-> {<<"c", "o", "r">>}, type |-> "cor"],
      [has |-> {<<"s", "a", "g">>}, type |-> "sag"]>>

\* the rules that match a lower-cased file name
C19_Matching(file_name) ==
    {k \in 1..Len(C19_Rules) : \E sub \in C19_Rules[k].has : Contains(file_name, sub)}

\* C19: the sequence type of a file record is a function of the lower-cased
\* file name: the type of the first rule that matches, in the order t2, adc,
\* dwi/hbv, cor, sag, and 'unknown' when none matches; it is always one of the
\* six values.
C19_SequenceType ==
    file_pc = "done"
    => LET file_name == Lower(image_file.name)
           matching == C19_Matching(file_name)
           type == image_info[1].sequence_type
       IN  /\ type \in {"t2w", "adc", "dwi", "cor", "sag", "unknown"}
           /\ matching = {} => type = "unknown"
           /\ matching # {}
              => type = C19_Rules[CHOOSE k \in matching : \A j \in matching : k <= j].type

\* a name with 'adc' before 'T2' is a T2W file
C19_Witness ==
    /\ file_pc = "done"
    /\ image_file.name = <<"a", "d", "c", "T", "2", ".", "n", "i", "i">>
    /\ image_info[1].sequence_type = "t2w"

---------------------------------------------------------------------------
(* Properties of save_current_case, checked under Spec *)

\* the step is a call of save_current_case
C20_SaveCalled == lastCall'.op = "save_current_case" /\ calls' = calls + 1

\* after the step the file the call was to write holds the case
C20_Written ==
    /\ lastCall'.path \in DiskPaths
    /\ disk'[lastCall'.path] # NoFile
    /\ disk'[lastCall'.path] # Corrupt

---------------------------------------------------------------------------
(* Further properties of the Case Manager, checked under Spec *)

\* C21: arrays are stripped on save, so save_current_case to a writable path
\* returns True for every current case, also one that carries the results of
\* a prediction, and the JSON written holds no array.
C21_SaveAlwaysSucceeds ==
    [][(C20_SaveCalled /\ HasCurrent /\ lastCall'.path \in DiskPaths)
       => /\ lastCall'.result = "True"
          /\ disk'[lastCall'.path][1] = "case"
          /\ CaseSerializable(disk'[lastCall'.path][2])]_vars

\* the step is a call of op that succeeded
C22_Succeeded(ops) ==
    /\ calls' = calls + 1
    /\ lastCall'.op \in ops
    /\ lastCall'.result \in {"ok", "True"}

\* current_case_has_changes() after the step
C22_HasChangesAfter ==
    IF current_case_index' < 0 \/ current_case_index' >= Len(cases') THEN FALSE
    ELSE cases'[current_case_index' + 1].has_changes

\* C22: current_case_has_changes() is True exactly when a mutating operation
\* succeeded on the current case since it was opened or last saved: it is
\* False right after load_case, load_case_from_file and a successful
\* save_current_case, True right after a successful add_file, remove_file,
\* update_metadata or set_prediction_results, and a failed call or the passing
\* of time leaves it as it is.
C22_HasChangesTracksEdits ==
    [][/\ C22_Succeeded({"load_case", "load_case_from_file", "save_current_case"})
          => ~ C22_HasChangesAfter
       /\ C22_Succeeded({"add_file_to_current_case", "remove_file_from_current_case",
                         "update_current_case_metadata",
                         "set_current_case_prediction_results"})
          => C22_HasChangesAfter
       /\ (/\ calls' = calls + 1
           /\ lastCall'.op \notin {"close_current_case", "close_all_cases"}
           /\ lastCall'.result \notin {"ok", "True"})
          => C22_HasChangesAfter = current_case_has_changes]_vars

\* case c apart from the two fields a save may write
C24_Apart(c) == [c EXCEPT !.modified_date = 0, !.has_changes = FALSE]

\* C24: save_current_case changes nothing in memory but the current case's
\* modified_date and has_changes: every file record keeps its keys and
\* values, its 'array' included, and the other cases are untouched.
C24_SaveFrame ==
    [][C20_SaveCalled
       => /\ current_case_index' = current_case_index
          /\ Len(cases') = Len(cases)
          /\ \A k \in 1..Len(cases) :
                IF k = current_case_index + 1
                THEN C24_Apart(cases'[k]) = C24_Apart(cases[k])
                ELSE cases'[k] = cases[k]]_vars

\* C29: the cases open at the same time have pairwise distinct ids, so their
\* default save paths TEMP_DIR/<id>.json are distinct.
C29_DistinctIds ==
    \A j, k \in 1..Len(cases) :
        j # k => /\ cases[j].id # cases[k].id
                 /\ DefaultPath(cases[j]) # DefaultPath(cases[k])

---------------------------------------------------------------------------
(* Properties of load_case_from_file, checked under SpecLoad *)

\* the step is a call of load_case_from_file
C23_LoadCalled == lastCall'.op = "load_case_from_file" /\ calls' = calls + 1

\* the file the call is given holds a JSON object with the four keys
C23_ValidCase ==
    /\ ReadJson(lastCall'.path) # <<>>
    /\ IsJsonObject(ReadJson(lastCall'.path)[1])
    /\ {"id", "name", "files", "metadata"} \subseteq DOMAIN ReadJson(lastCall'.path)[1]

\* C23: load_case_from_file on a file that cannot be read, is not valid JSON
\* or lacks one of the keys id, name, files, metadata raises ValueError,
\* leaves cases and current_case_index as they were and emits no case_loaded;
\* on success it appends exactly one case and makes it current.
C23_LoadFromFileFailsCleanly ==
    [][C23_LoadCalled
       => /\ ~ C23_ValidCase
             => /\ lastCall'.result = "ValueError"
                /\ lastCall'.emitted = <<>>
                /\ cases' = cases
                /\ current_case_index' = current_case_index
          /\ C23_ValidCase
             => /\ lastCall'.result = "ok"
                /\ cases' = Append(cases, ReadJson(lastCall'.path)[1])
                /\ current_case_index' = Len(cases)]_vars

---------------------------------------------------------------------------
(* Further properties of the prediction controller, checked under SpecPred *)

\* C25: a start_prediction call that is rejected (ValueError) leaves the
\* controller as it was: worker, last_results and model_path keep their
\* values and prediction_started is not emitted.
C25_RejectedStartFrame ==
    [][(C11_StartCalled /\ lastCall'.result = "ValueError")
       => /\ workers' = workers
          /\ last_results' = last_results
          /\ model_path' = model_path
          /\ lastCall'.emitted = <<>>]_vars

\* C28: progress_update(100) is emitted only in runs in which every stage
\* succeeded: a run that reported 100 emits no prediction_error, and once it
\* has finished it has emitted prediction_result.
C28_FullProgressMeansSuccess ==
    \A w \in DOMAIN workers :
        (\E i \in 1..Len(workers[w].log) :
            /\ workers[w].log[i].sig = "progress_update"
            /\ workers[w].log[i].val[1] = 100)
        => /\ C14_Count(workers[w].log, "prediction_error") = 0
           /\ workers[w].pc = "finished"
              => C14_Count(workers[w].log, "prediction_result") = 1

---------------------------------------------------------------------------
(* Properties of the main window, checked under SpecPred (C26, C27) and
   under Spec (C30) *)

\* C26: whenever on_report_clicked opens the report dialog, the case handed
\* to it is the current case and is not None, and the results handed to it
\* were computed from that case: the run whose results are in last_results
\* was started on the case that is current now.
C26_ReportPairsCaseAndResults ==
    [][(/\ calls' = calls + 1
        /\ lastCall'.op = "on_report_clicked"
        /\ lastCall'.result = "ReportDialog")
       => /\ get_current_case # <<>>
          /\ workers[LastResultsWorker].case_data = Listed(current_case_index + 1)]_vars

\* C27: the predict action is enabled exactly when a current case exists and
\* no prediction worker is running.
C27_PredictEnabled ==
    predict_enabled <=> (HasCurrent /\ ~ WorkerIsRunning)

\* a reader of the viewer (SimpleITK when installed, else VTK) reads the file
C30_Displayable(file_path) ==
    \/ "SimpleITK" \in installed /\ "SimpleITK" \in FileSystem[file_path].reads
    \/ "vtk" \in FileSystem[file_path].reads

\* C30: after load_case_data(case) with a case that has a file (the slot of
\* case_loaded), the viewer holds that case, its sequence selector has one
\* entry per file and the first sequence is loaded for display; the viewer's
\* case_data is None only after clear() or before any case was loaded.
C30_ViewerHoldsCase ==
    [][(/\ "case_loaded" \in Range(lastCall'.emitted)
        /\ calls' = calls + 1
        /\ cases'[current_case_index' + 1].files # <<>>)
       => /\ viewer'.case_data = <<Listed(current_case_index' + 1)>>
          /\ Len(viewer'.sequence_combo) = Len(cases'[current_case_index' + 1].files)
          /\ viewer'.current_index = 0
          /\ C30_Displayable(cases'[current_case_index' + 1].files[1].path)
             => viewer'.image_data = <<cases'[current_case_index' + 1].files[1].path>>]_vars

====
